---- MODULE Spec2Model ----
(***************************************************************************)
(* Model of src/app.py, the "Vehicle Registry Dashboard": a Streamlit      *)
(* script that polls the Supabase table `alpha`, keeps the last accepted   *)
(* table in st.session_state['data'], filters it and paints it.            *)
(*                                                                         *)
(* Execution model.  Streamlit runs the whole script top to bottom for a   *)
(* browser session ("script run").  A widget interaction records the new   *)
(* widget value and requests a rerun; the running script is not stopped at *)
(* once: the request is served when the script next calls into Streamlit   *)
(* to emit an element (an st or ui call), where the run is abandoned and   *)
(* the script starts again from line 1 with the new widget values.         *)
(* Blocking calls (the Supabase query, time.sleep) and pandas code are not *)
(* interrupted.  Depending on the Streamlit version and configuration an   *)
(* access to st.session_state serves the request as well, and the request  *)
(* may be served at once by a new script thread while the old thread is    *)
(* still blocked (it then stops, without effect, at its next call into     *)
(* Streamlit); the model allows all of these.                              *)
(* Time is abstracted: a sleep ends at some later step.                    *)
(*                                                                         *)
(* Strings are sequences of one-character strings, so that substring and   *)
(* pattern matching are computed character by character.                   *)
(***************************************************************************)
EXTENDS Integers, Sequences, FiniteSets, TLC

\* ------------------------------------------------------------------ bounds
MaxRows == 1
MaxInteractions == 3
MaxTermLen == 2
MaxFilterRows == 2

\* ------------------------------------------------------- data description
Columns == {"Plate Number", "Call Sign"}

FilterScopes == {"All", "Plate Number", "Call Sign"}

TabOptions == {"Data Table", "Statistics", "Settings"}

ExportFormats == {"CSV", "Excel", "JSON"}

\* characters occurring in cells and search terms; "." is the one regular
\* expression metacharacter kept in the alphabet
Alphabet == {"a", "A", "b", "."}

\* records of the remote table `alpha` (id, plate_number, call_sign)
RemoteRecords ==
  { [id |-> 1, plate_number |-> <<"A", "b">>, call_sign |-> <<"a">>],
    [id |-> 2, plate_number |-> <<"b", ".">>, call_sign |-> <<"b">>] }

\* id is the table's key: no record occurs twice in a result
RemoteTables ==
  { t \in UNION { [1..n -> RemoteRecords] : n \in 0..MaxRows } :
      \A i, j \in 1..Len(t) : t[i] = t[j] => i = j }

\* what query.execute() produces: a list of records, or an exception
Responses ==
  { [ok |-> TRUE, data |-> t] : t \in RemoteTables } \cup { [ok |-> FALSE, data |-> <<>>] }

\* search box contents offered in the dashboard model
SearchTerms == { <<>>, <<"a">> }

\* inputs of the filter_data harness
FilterCells == { <<"A", "b">>, <<"b", ".">>, <<"a">> }

FilterRows == [Columns -> FilterCells]

FilterTables == UNION { [1..n -> FilterRows] : n \in 0..MaxFilterRows }

FilterTerms == UNION { [1..n -> Alphabet] : n \in 0..MaxTermLen }

\* ------------------------------------------------------------ fetch_data
\* lines 126-137: DataFrame(response.data), rename, select the two columns
DisplayFrame(records) ==
  [i \in 1..Len(records) |->
     [c \in Columns |-> IF c = "Plate Number" THEN records[i].plate_number
                                             ELSE records[i].call_sign]]

\* lines 119-143: the DataFrame returned and whether st.error was called
fetch_data(resp) ==
  IF resp.ok
    THEN [df |-> IF Len(resp.data) > 0 THEN DisplayFrame(resp.data) ELSE <<>>,
          error |-> FALSE]
    ELSE [df |-> <<>>, error |-> TRUE]

\* ----------------------------------------------------------- filter_data
Lower(ch) == IF ch = "A" THEN "a" ELSE ch

\* one pattern character against one subject character, re.IGNORECASE
PatCharMatches(p, ch) == p = "." \/ Lower(p) = Lower(ch)

\* Series.str.contains(search, case=False): re.search of the pattern
StrContains(s, pat) ==
  \E off \in 0..(Len(s) - Len(pat)) :
     \A j \in 1..Len(pat) : PatCharMatches(pat[j], s[off + j])

\* lines 146-162
filter_data(df, search, filter_col) ==
  IF df = <<>> THEN df
  ELSE IF search = <<>> THEN df
  ELSE IF filter_col # "All"
    THEN SelectSeq(df, LAMBDA r : StrContains(r[filter_col], search))
    ELSE SelectSeq(df, LAMBDA r : \E c \in Columns : StrContains(r[c], search))

\* ---------------------------------------------------------------- export
ColumnOrder == <<"Plate Number", "Call Sign">>

RECURSIVE CsvLines(_)
\* df.to_csv(index=False) body: fields joined by ",", lines ended by "\n"
CsvLines(df) ==
  IF df = <<>> THEN <<>>
  ELSE Head(df)["Plate Number"] \o <<",">> \o Head(df)["Call Sign"] \o <<"\n">>
       \o CsvLines(Tail(df))

\* line 339: header line, then one line per row
to_csv(df) == <<"Plate Number", ",", "Call Sign", "\n">> \o CsvLines(df)

\* line 350: one sheet, header row then one row of cells per row
to_excel(df) ==
  <<ColumnOrder>> \o [i \in 1..Len(df) |-> <<df[i]["Plate Number"], df[i]["Call Sign"]>>]

\* line 359: orient="records", an array of objects keyed by column name
to_json(df) == [i \in 1..Len(df) |-> [c \in Columns |-> df[i][c]]]

\* lines 338-365
Encode(fmt, df) ==
  CASE fmt = "CSV" -> to_csv(df)
    [] fmt = "Excel" -> to_excel(df)
    [] fmt = "JSON" -> to_json(df)


\* ----------------------------------------------------------------- state
VARIABLES
  \* st.session_state
  data, auto_update, trigger_refresh,
  \* widget values held by the browser session (keys of the ui.* calls)
  auto_update_switch, search_input, filter_radio, main_tabs, export_radio,
  refresh_clicked, export_clicked,
  \* the script run
  pc, rerun_pending, supabase,
  search_term, filter_column, tab_selection, export_format, export_btn,
  current_data, filtered_data, notification_shown,
  \* the page
  notice, table_kind, table_rows, fetch_error_shown,
  export_offered, download_kind, download_data,
  \* observers (no counterpart in the code); orphaned: queries of abandoned
  \* runs are still in flight
  outstanding, orphaned, last_fetch, fetched, since_fetch, tick_unpainted,
  tick_grew, fetch_grew, changed_in_flight,
  interactions

session == <<data, auto_update, trigger_refresh>>

widgets ==
  <<auto_update_switch, search_input, filter_radio, main_tabs, export_radio,
    refresh_clicked, export_clicked>>

locals ==
  <<search_term, filter_column, tab_selection, export_format, export_btn,
    current_data, filtered_data, notification_shown>>

page ==
  <<notice, table_kind, table_rows, fetch_error_shown,
    export_offered, download_kind, download_data>>

fetchlog == <<outstanding, orphaned, last_fetch, fetched, since_fetch>>

ticklog == <<tick_unpainted, tick_grew, fetch_grew>>

vars ==
  <<session, widgets, pc, rerun_pending, supabase, locals, page,
    fetchlog, ticklog, changed_in_flight, interactions>>

\* lines 59-76 and the widgets' default values; init_supabase either built
\* the client or reported the failure and returned None
Init ==
  /\ data = <<>> /\ auto_update = TRUE /\ trigger_refresh = "absent"
  /\ auto_update_switch = TRUE /\ search_input = <<>> /\ filter_radio = "All"
  /\ main_tabs = "Data Table" /\ export_radio = "CSV"
  /\ refresh_clicked = FALSE /\ export_clicked = FALSE
  /\ pc = "top" /\ rerun_pending = FALSE /\ supabase \in BOOLEAN
  /\ search_term = <<>> /\ filter_column = "All" /\ tab_selection = "Data Table"
  /\ export_format = "CSV" /\ export_btn = FALSE
  /\ current_data = <<>> /\ filtered_data = <<>>
  /\ notification_shown = FALSE
  /\ notice = FALSE /\ table_kind = "blank" /\ table_rows = <<>>
  /\ fetch_error_shown = FALSE
  /\ export_offered = FALSE /\ download_kind = "none" /\ download_data = <<>>
  /\ outstanding = 0 /\ orphaned = FALSE /\ last_fetch = "none" /\ fetched = <<>>
  /\ since_fetch = "none"
  /\ tick_unpainted = FALSE /\ tick_grew = FALSE
  /\ fetch_grew = FALSE
  /\ changed_in_flight = FALSE /\ interactions = 0

\* ------------------------------------------------- script run, framework
\* the script's variables of an abandoned or new run
LocalsReset ==
  /\ search_term' = <<>> /\ filter_column' = "All" /\ tab_selection' = "Data Table"
  /\ export_format' = "CSV" /\ export_btn' = FALSE
  /\ current_data' = <<>> /\ filtered_data' = <<>>
  /\ notification_shown' = FALSE

\* the page of a run that starts: the elements of the previous run are
\* replaced by those of the new run; the model clears them as soon as the
\* previous run is abandoned
PageReset ==
  /\ notice' = FALSE /\ table_kind' = "blank" /\ table_rows' = <<>>
  /\ fetch_error_shown' = FALSE
  /\ export_offered' = FALSE /\ download_kind' = "none" /\ download_data' = <<>>

\* the observers of one run
RunLogReset ==
  /\ last_fetch' = "none" /\ fetched' = <<>>
  /\ tick_unpainted' = FALSE /\ tick_grew' = FALSE /\ fetch_grew' = FALSE

\* the pending rerun request is served: the run is abandoned where it stands
AbortRun == pc' = "top" /\ LocalsReset /\ PageReset /\ RunLogReset

\* positions whose next statement emits an element
ElementYield == {"tab_data", "repaint", "stats", "settings", "footer"}

\* positions inside query.execute() (line 122)
Fetching == {"load_fetching", "tick_fetching"}

\* positions whose next statement reads or writes st.session_state
SessionStateYield == {"loop_top", "sleep"}

\* a fetch is issued: query.execute() is called (line 122)
IssueFetch ==
  /\ outstanding' = outstanding + 1
  /\ since_fetch' = "fetch"
  /\ last_fetch' = "none" /\ fetched' = <<>>
  /\ UNCHANGED orphaned

\* lines 9-116, 165-172: the sidebar and the tab bar are rebuilt from the
\* widget values of the rerun request
ScriptTop ==
  /\ pc = "top"
  /\ rerun_pending' = FALSE
  /\ auto_update' = auto_update_switch
  /\ trigger_refresh' =
       IF ~auto_update_switch /\ refresh_clicked THEN "true" ELSE trigger_refresh
  /\ refresh_clicked' = FALSE /\ export_clicked' = FALSE
  /\ search_term' = search_input /\ filter_column' = filter_radio
  /\ tab_selection' = main_tabs
  /\ export_format' = IF main_tabs = "Settings" THEN export_radio ELSE "CSV"
  /\ export_btn' = (main_tabs = "Settings" /\ export_clicked)
  /\ current_data' = <<>> /\ filtered_data' = <<>>
  /\ notification_shown' = FALSE
  /\ PageReset /\ RunLogReset
  /\ pc' = CASE main_tabs = "Data Table" -> "tab_data"
             [] main_tabs = "Statistics" -> "stats"
             [] main_tabs = "Settings" -> "settings"
  /\ UNCHANGED <<data, auto_update_switch, search_input, filter_radio, main_tabs,
                 export_radio, supabase, outstanding, orphaned, since_fetch,
                 changed_in_flight, interactions>>

\* lines 172-181: placeholders, then the initial load when the snapshot is
\* empty or a manual refresh was requested
DataTableTab ==
  /\ pc = "tab_data" /\ ~rerun_pending
  /\ IF (data = <<>> \/ trigger_refresh = "true") /\ supabase
       THEN pc' = "load_fetching" /\ IssueFetch
       ELSE pc' = "loop_top" /\ UNCHANGED fetchlog
  /\ UNCHANGED <<session, widgets, rerun_pending, supabase, locals, page,
                 ticklog, changed_in_flight, interactions>>

\* the comparison admitting a table of equal size
GrewOrEqual(new, current) == Len(new) >= Len(current)

\* line 198
Grew(new, current) == Len(new) > Len(current)

\* the view filtered before the fetch kept after the snapshot was replaced
RefilterStale(new) == filtered_data

\* line 202
Refilter(new) == filter_data(new, search_term, filter_column)

\* the banner never cleared
NoticeKept(shown) == notice

\* lines 205-207: the banner after the tick, given notification_shown
NoticeAfterTick(shown) == IF ~shown THEN FALSE ELSE notice

\* line 181 returning, lines 180-183: fetch_data's result is stored whatever
\* it is, and the refresh request cleared.  With a rerun request pending the
\* run is abandoned either before the store (at st.error, line 142, or at
\* the write of st.session_state, line 181) or after it, where the spinner
\* of line 180 is cleared.
LoadFetchReturn ==
  /\ pc = "load_fetching"
  /\ \E resp \in Responses :
       /\ outstanding' = outstanding - 1
       /\ \/ /\ rerun_pending
             /\ AbortRun
             /\ UNCHANGED <<data, trigger_refresh>>
          \/ /\ rerun_pending /\ ~fetch_data(resp).error
             /\ data' = fetch_data(resp).df
             /\ trigger_refresh' =
                  IF trigger_refresh = "absent" THEN "absent" ELSE "false"
             /\ AbortRun
          \/ /\ ~rerun_pending
             /\ last_fetch' = IF resp.ok THEN "ok" ELSE "fail"
             /\ fetched' = fetch_data(resp).df
             /\ fetch_error_shown' = (fetch_error_shown \/ fetch_data(resp).error)
             /\ data' = fetch_data(resp).df
             /\ trigger_refresh' =
                  IF trigger_refresh = "absent" THEN "absent" ELSE "false"
             /\ fetch_grew' = (Len(data') > Len(data))
             /\ pc' = "loop_top"
             /\ UNCHANGED <<locals, notice, table_kind, table_rows, export_offered,
                            download_kind, download_data, tick_unpainted, tick_grew>>
  /\ UNCHANGED <<auto_update, widgets, rerun_pending, supabase, orphaned,
                 since_fetch, changed_in_flight, interactions>>

\* lines 186-195: top of a loop iteration, up to the tick's fetch
LoopTop ==
  /\ pc = "loop_top"
  /\ current_data' = data
  /\ filtered_data' = filter_data(data, search_term, filter_column)
  /\ notification_shown' = FALSE
  /\ tick_grew' = FALSE
  /\ IF auto_update /\ supabase
       THEN pc' = "tick_fetching" /\ IssueFetch /\ tick_unpainted' = TRUE
       ELSE pc' = "repaint" /\ UNCHANGED <<fetchlog, tick_unpainted>>
  /\ UNCHANGED <<session, widgets, rerun_pending, supabase, search_term,
                 filter_column, tab_selection, export_format, export_btn,
                 page, fetch_grew, changed_in_flight, interactions>>

\* line 195 returning, lines 197-207: the growth check.  Whatever was
\* fetched, the next statement that has an effect emits an element (st.error
\* at line 142, the banner at line 199 or its clearing at line 207), so a
\* pending rerun request is served before anything is stored.
\* current_data is not read again before line 188 assigns it.
TickFetchReturn ==
  /\ pc = "tick_fetching"
  /\ \E resp \in Responses :
       LET new_data == fetch_data(resp).df
       IN /\ outstanding' = outstanding - 1
          /\ IF rerun_pending
               THEN /\ AbortRun
                    /\ UNCHANGED data
               ELSE /\ last_fetch' = IF resp.ok THEN "ok" ELSE "fail"
                    /\ fetched' = new_data
                    /\ fetch_error_shown' =
                         (fetch_error_shown \/ fetch_data(resp).error)
                    /\ IF Grew(new_data, current_data)
                         THEN /\ notice' = TRUE
                              /\ data' = new_data
                              /\ filtered_data' = Refilter(new_data)
                              /\ notification_shown' = TRUE
                         ELSE UNCHANGED <<notice, data, filtered_data,
                                          notification_shown>>
                    /\ tick_grew' = (Len(data') > Len(data))
                    /\ fetch_grew' = (Len(data') > Len(data))
                    /\ current_data' = <<>>
                    /\ pc' = "repaint"
                    /\ UNCHANGED <<search_term, filter_column, tab_selection,
                                   export_format, export_btn, table_kind, table_rows,
                                   export_offered, download_kind, download_data,
                                   tick_unpainted>>
  /\ UNCHANGED <<auto_update, trigger_refresh, widgets, rerun_pending, supabase,
                 orphaned, since_fetch, changed_in_flight, interactions>>

\* the table painted only when the snapshot grew
RepaintOnlyOnGrowth ==
  /\ pc = "repaint" /\ ~rerun_pending
  /\ notice' = NoticeAfterTick(notification_shown)
  /\ IF notification_shown
       THEN /\ table_kind' = IF filtered_data # <<>> THEN "table" ELSE "info"
            /\ table_rows' = filtered_data
            /\ since_fetch' = "repaint"
            /\ tick_unpainted' = FALSE
       ELSE UNCHANGED <<table_kind, table_rows, since_fetch, tick_unpainted>>
  /\ filtered_data' = <<>> /\ notification_shown' = FALSE /\ current_data' = <<>>
  /\ pc' = "sleep"
  /\ last_fetch' = "none" /\ fetched' = <<>>
  /\ fetch_grew' = FALSE /\ tick_grew' = FALSE
  /\ UNCHANGED <<session, widgets, rerun_pending, supabase, search_term,
                 filter_column, tab_selection, export_format, export_btn,
                 fetch_error_shown, export_offered, download_kind, download_data,
                 outstanding, orphaned, changed_in_flight, interactions>>

\* lines 205-230: the banner is cleared unless just shown, then the table
\* (or the "no data" message) is painted; filtered_data, current_data and
\* notification_shown are assigned afresh (lines 188-192) before the next read
Repaint ==
  /\ pc = "repaint" /\ ~rerun_pending
  /\ notice' = NoticeAfterTick(notification_shown)
  /\ table_kind' = IF filtered_data # <<>> THEN "table" ELSE "info"
  /\ table_rows' = filtered_data
  /\ filtered_data' = <<>> /\ notification_shown' = FALSE /\ current_data' = <<>>
  /\ pc' = "sleep"
  /\ since_fetch' = "repaint"
  /\ tick_unpainted' = FALSE
  /\ last_fetch' = "none" /\ fetched' = <<>>
  /\ fetch_grew' = FALSE /\ tick_grew' = FALSE
  /\ UNCHANGED <<session, widgets, rerun_pending, supabase, search_term,
                 filter_column, tab_selection, export_format, export_btn,
                 fetch_error_shown, export_offered, download_kind, download_data,
                 outstanding, orphaned, changed_in_flight, interactions>>

\* the loop left after a tick that reported an error
SleepStopsAfterError ==
  /\ pc = "sleep"
  /\ pc' = IF ~auto_update \/ fetch_error_shown THEN "footer" ELSE "loop_top"
  /\ changed_in_flight' = FALSE
  /\ UNCHANGED <<session, widgets, rerun_pending, supabase, locals, page, fetchlog,
                 ticklog, interactions>>

\* lines 232-237: the wait ends; the loop is left when auto-update is off
Sleep ==
  /\ pc = "sleep"
  /\ pc' = IF ~auto_update THEN "footer" ELSE "loop_top"
  /\ changed_in_flight' = FALSE
  /\ UNCHANGED <<session, widgets, rerun_pending, supabase, locals, page, fetchlog,
                 ticklog, interactions>>

\* lines 239-288: the statistics are painted from the snapshot
StatisticsTab ==
  /\ pc = "stats" /\ ~rerun_pending
  /\ pc' = "footer"
  /\ UNCHANGED <<session, widgets, rerun_pending, supabase, locals, page, fetchlog,
                 ticklog, changed_in_flight, interactions>>

\* the filtered view exported instead of the snapshot
ExportDfFiltered == filter_data(data, search_term, filter_column)

\* line 334
ExportDf == data

\* lines 290-384: the export controls; a download is offered on a click
SettingsTab ==
  /\ pc = "settings" /\ ~rerun_pending
  /\ export_offered' = (data # <<>>)
  /\ IF data # <<>> /\ export_btn
       THEN /\ download_kind' = export_format
            /\ download_data' = Encode(export_format, ExportDf)
       ELSE UNCHANGED <<download_kind, download_data>>
  /\ pc' = "footer"
  /\ UNCHANGED <<session, widgets, rerun_pending, supabase, locals, notice,
                 table_kind, table_rows, fetch_error_shown, fetchlog, ticklog,
                 changed_in_flight, interactions>>

\* lines 386-388: the run ends
Footer ==
  /\ pc = "footer" /\ ~rerun_pending
  /\ pc' = "idle"
  /\ UNCHANGED <<session, widgets, rerun_pending, supabase, locals, page, fetchlog,
                 ticklog, changed_in_flight, interactions>>

\* a rerun request served where the script emits an element
RerunAtElement ==
  /\ rerun_pending /\ pc \in ElementYield
  /\ AbortRun
  /\ UNCHANGED <<session, widgets, rerun_pending, supabase, outstanding, orphaned,
                 since_fetch, changed_in_flight, interactions>>

\* a rerun request served at an access to st.session_state
RerunAtSessionState ==
  /\ rerun_pending /\ pc \in SessionStateYield
  /\ AbortRun
  /\ UNCHANGED <<session, widgets, rerun_pending, supabase, outstanding, orphaned,
                 since_fetch, changed_in_flight, interactions>>

\* a rerun request served at once by a new script thread (runner.fastReruns)
\* while the old thread is inside query.execute(): the old thread may emit
\* nothing and store nothing any more, its query stays in flight
RerunWhileFetching ==
  /\ rerun_pending /\ pc \in Fetching
  /\ AbortRun
  /\ orphaned' = TRUE
  /\ outstanding' = 0
  /\ UNCHANGED <<session, widgets, rerun_pending, supabase, since_fetch,
                 changed_in_flight, interactions>>

\* the last query of the abandoned runs returns; its result is dropped
OrphanFetchReturn ==
  /\ orphaned
  /\ orphaned' = FALSE
  /\ UNCHANGED <<session, widgets, pc, rerun_pending, supabase, locals, page,
                 outstanding, last_fetch, fetched, since_fetch, ticklog,
                 changed_in_flight, interactions>>

\* a rerun request arriving after the run has ended starts the next run
StartRun ==
  /\ rerun_pending /\ pc = "idle"
  /\ pc' = "top"
  /\ UNCHANGED <<session, widgets, rerun_pending, supabase, locals, page, fetchlog,
                 ticklog, changed_in_flight, interactions>>

\* ------------------------------------------------------------- the user
\* every widget interaction requests a rerun
Interact ==
  /\ interactions < MaxInteractions
  /\ interactions' = interactions + 1
  /\ rerun_pending' = TRUE
  /\ UNCHANGED <<session, pc, supabase, locals, page, fetchlog, ticklog>>

\* line 83
UserToggleAutoUpdate ==
  /\ Interact
  /\ auto_update_switch' = ~auto_update_switch
  /\ UNCHANGED <<search_input, filter_radio, main_tabs, export_radio,
                 refresh_clicked, export_clicked, changed_in_flight>>

\* line 100: the button exists only while auto updates are shown disabled
UserClickRefresh ==
  /\ Interact
  /\ ~auto_update
  /\ refresh_clicked' = TRUE
  /\ UNCHANGED <<auto_update_switch, search_input, filter_radio, main_tabs,
                 export_radio, export_clicked, changed_in_flight>>

\* line 107
UserTypeSearch ==
  /\ Interact
  /\ \E t \in SearchTerms \ {search_input} : search_input' = t
  /\ changed_in_flight' = (changed_in_flight \/ outstanding > 0)
  /\ UNCHANGED <<auto_update_switch, filter_radio, main_tabs, export_radio,
                 refresh_clicked, export_clicked>>

\* line 116
UserPickFilter ==
  /\ Interact
  /\ \E c \in FilterScopes \ {filter_radio} : filter_radio' = c
  /\ changed_in_flight' = (changed_in_flight \/ outstanding > 0)
  /\ UNCHANGED <<auto_update_switch, search_input, main_tabs, export_radio,
                 refresh_clicked, export_clicked>>

\* line 165
UserSwitchTab ==
  /\ Interact
  /\ \E t \in TabOptions \ {main_tabs} : main_tabs' = t
  /\ UNCHANGED <<auto_update_switch, search_input, filter_radio, export_radio,
                 refresh_clicked, export_clicked, changed_in_flight>>

\* line 331: the radio group exists once the Settings tab is painted
UserPickExportFormat ==
  /\ Interact
  /\ tab_selection = "Settings" /\ pc \in {"footer", "idle"}
  /\ \E f \in ExportFormats \ {export_radio} : export_radio' = f
  /\ UNCHANGED <<auto_update_switch, search_input, filter_radio, main_tabs,
                 refresh_clicked, export_clicked, changed_in_flight>>

\* line 336: the button exists only when the snapshot was not empty
UserClickExport ==
  /\ Interact
  /\ export_offered
  /\ export_clicked' = TRUE
  /\ UNCHANGED <<auto_update_switch, search_input, filter_radio, main_tabs,
                 export_radio, refresh_clicked, changed_in_flight>>

\* ----------------------------------------------------- the specifications
ScriptNext ==
  \/ ScriptTop
  \/ DataTableTab
  \/ LoadFetchReturn
  \/ LoopTop
  \/ TickFetchReturn
  \/ Repaint
  \/ Sleep
  \/ StatisticsTab
  \/ SettingsTab
  \/ Footer
  \/ RerunAtElement
  \/ RerunAtSessionState
  \/ RerunWhileFetching
  \/ OrphanFetchReturn
  \/ StartRun

UserNext ==
  \/ UserToggleAutoUpdate
  \/ UserClickRefresh
  \/ UserTypeSearch
  \/ UserPickFilter
  \/ UserSwitchTab
  \/ UserPickExportFormat
  \/ UserClickExport

Next == ScriptNext \/ UserNext

Spec == Init /\ [][Next]_vars

\* the script thread keeps running: a query returns (the client's own
\* timeout bounds it), a sleep ends, a pending rerun request is served
FairSpec == Spec /\ WF_vars(ScriptNext)

\* ------------------------------------------------- filter_data on its own
\* filter_data applied to every table, search term and scope of the bounds
FilterInit ==
  /\ data \in FilterTables /\ search_term \in FilterTerms
  /\ filter_column \in FilterScopes
  /\ pc = "filter_in"
  /\ auto_update = TRUE /\ trigger_refresh = "absent"
  /\ auto_update_switch = TRUE /\ search_input = <<>> /\ filter_radio = "All"
  /\ main_tabs = "Data Table" /\ export_radio = "CSV"
  /\ refresh_clicked = FALSE /\ export_clicked = FALSE
  /\ rerun_pending = FALSE /\ supabase = TRUE
  /\ tab_selection = "Data Table" /\ export_format = "CSV" /\ export_btn = FALSE
  /\ current_data = <<>> /\ filtered_data = <<>> /\ notification_shown = FALSE
  /\ notice = FALSE /\ table_kind = "blank" /\ table_rows = <<>>
  /\ fetch_error_shown = FALSE
  /\ export_offered = FALSE /\ download_kind = "none" /\ download_data = <<>>
  /\ outstanding = 0 /\ orphaned = FALSE /\ last_fetch = "none" /\ fetched = <<>>
  /\ since_fetch = "none"
  /\ tick_unpainted = FALSE /\ tick_grew = FALSE /\ fetch_grew = FALSE
  /\ changed_in_flight = FALSE /\ interactions = 0

\* line 189
FilterApply ==
  /\ pc = "filter_in"
  /\ filtered_data' = filter_data(data, search_term, filter_column)
  /\ pc' = "filter_out"
  /\ UNCHANGED <<session, widgets, rerun_pending, supabase, search_term,
                 filter_column, tab_selection, export_format, export_btn,
                 current_data, notification_shown, page, fetchlog, ticklog,
                 changed_in_flight, interactions>>

FilterNext == FilterApply

FilterSpec == FilterInit /\ [][FilterNext]_vars

\* ============================================================== properties
\* a fetch is issued / a fetch returns, as steps
FetchIssued == pc \notin Fetching /\ pc' \in Fetching

FetchReturned == pc \in Fetching /\ last_fetch' # "none"

\* ---- C1
\* C1: on an auto-update tick whose fetch succeeds and whose growth check is
\* carried out, the snapshot becomes the fetched table and the tick reports
\* growth when the fetched table has strictly more rows than the snapshot;
\* otherwise the snapshot is the one before the tick and no growth is
\* reported, whatever rows were fetched.
C1_ReplaceIffLarger ==
  [][(pc = "tick_fetching" /\ pc' = "repaint" /\ last_fetch' = "ok")
       => IF Len(fetched') > Len(data)
            THEN data' = fetched' /\ notification_shown'
            ELSE data' = data /\ ~notification_shown']_vars

\* a tick has replaced the snapshot by a larger fetched table
C1_Witness ==
  /\ pc = "repaint" /\ tick_unpainted /\ last_fetch = "ok"
  /\ notification_shown /\ data = fetched /\ data # <<>>

\* ---- C2
\* C2: the row count of the stored snapshot never decreases, in any step.
C2_NeverShrinks == [][Len(data') >= Len(data)]_vars

\* ---- C3
\* C3: whenever a fetch fails and the run goes on, the snapshot after the
\* fetch is the snapshot before it, the error message is on the page and the
\* script continues.
C3_FailureKeepsSnapshot ==
  [][(FetchReturned /\ last_fetch' = "fail" /\ pc' # "top")
       => /\ data' = data
          /\ fetch_error_shown'
          /\ pc' \in {"loop_top", "repaint"}]_vars

\* ---- C4
\* C4: while auto-update is disabled no fetch is issued unless a manual
\* refresh is pending (the first load of the session set aside), and a fetch
\* issued while it is disabled is the single load fetch, never a tick.
C4_NoFetchWhileDisabled ==
  [][(FetchIssued /\ ~auto_update /\ since_fetch # "none")
       => (trigger_refresh = "true" /\ pc' = "load_fetching")]_vars

\* ---- C5
\* case-insensitive containment of term as a literal substring
LiteralContains(s, term) ==
  \E off \in 0..(Len(s) - Len(term)) :
     \A j \in 1..Len(term) : Lower(term[j]) = Lower(s[off + j])

\* the rows the claim selects
SubstringRows(df, term, scope) ==
  IF term = <<>> THEN df
  ELSE IF scope # "All"
    THEN SelectSeq(df, LAMBDA r : LiteralContains(r[scope], term))
    ELSE SelectSeq(df, LAMBDA r : \E c \in Columns : LiteralContains(r[c], term))

\* C5: filter_data returns, in snapshot order, exactly the rows selected by
\* case-insensitive literal substring containment.
C5_LiteralSubstring ==
  pc = "filter_out" => filtered_data = SubstringRows(data, search_term, filter_column)

\* ---- C6
\* C6: every repaint shows filter_data of the snapshot stored at that moment
\* under the search term and filter scope the widgets hold at that moment.
C6_RepaintUsesLatestViewState ==
  [][(pc = "repaint" /\ pc' = "sleep")
       => /\ table_rows' = filter_data(data', search_input', filter_radio')
          /\ table_kind' = IF table_rows' # <<>> THEN "table" ELSE "info"]_vars

\* a repaint has followed a fetch during which the search term or the filter
\* scope was changed, and rows are on display
C6_Witness ==
  /\ pc = "sleep" /\ changed_in_flight /\ table_kind = "table"
  /\ search_input # <<>>

\* ---- C7
\* C7 as stated: a fetch is issued only when none is outstanding and a
\* repaint has completed since the previous fetch.
C7_RepaintBetweenFetches ==
  [][FetchIssued => (outstanding = 0 /\ ~orphaned /\ since_fetch # "fetch")]_vars

\* C7 amended: a script run has at most one fetch outstanding, and issues a
\* tick's fetch only after the repaint of its previous tick.
C7_SerialTicks ==
  /\ [](outstanding \in {0, 1})
  /\ [][(FetchIssued /\ pc' = "tick_fetching")
          => (outstanding = 0 /\ ~tick_unpainted)]_vars

\* a second tick of the same run has issued its fetch after a repaint
C7_Witness == pc = "tick_fetching" /\ outstanding = 1 /\ table_kind # "blank"

\* ---- C8
RECURSIVE SplitBy(_, _)
\* text cut at every occurrence of sep
SplitBy(text, sep) ==
  IF text = <<>> THEN << <<>> >>
  ELSE LET rest == SplitBy(Tail(text), sep)
       IN IF Head(text) = sep
            THEN << <<>> >> \o rest
            ELSE << <<Head(text)>> \o Head(rest) >> \o Tail(rest)

\* the lines of a CSV text, each cut into fields
CsvFields(text) ==
  LET lines == SplitBy(text, "\n")
  IN [i \in 1..(Len(lines) - 1) |-> SplitBy(lines[i], ",")]

\* the rows a reader of the file gets back
DecodedRows(kind, payload) ==
  CASE kind = "CSV" ->
         LET f == CsvFields(payload)
             col(c) == CHOOSE k \in 1..Len(f[1]) : f[1][k] = <<c>>
         IN [i \in 1..(Len(f) - 1) |-> [c \in Columns |-> f[i + 1][col(c)]]]
    [] kind = "Excel" ->
         LET col(c) == CHOOSE k \in 1..Len(payload[1]) : payload[1][k] = c
         IN [i \in 1..(Len(payload) - 1) |-> [c \in Columns |-> payload[i + 1][col(c)]]]
    [] kind = "JSON" -> payload

C9_AlwaysTicks ==
  (auto_update_switch /\ outstanding = 0) ~> (outstanding = 1 \/ ~auto_update_switch)

\* C9 amended: while the switch is on, the Data Table tab is selected and the
\* Supabase client exists, a fetch always follows, also after a failed one.
C9_TicksOnDataTable ==
  (auto_update_switch /\ main_tabs = "Data Table" /\ supabase /\ outstanding = 0)
    ~> (outstanding = 1 \/ ~auto_update_switch \/ main_tabs # "Data Table")

\* a tick's fetch is outstanding in a run that reported a fetch error and
\* has painted since
C9_Witness ==
  /\ pc = "tick_fetching" /\ outstanding = 1
  /\ fetch_error_shown /\ table_kind # "blank"

\* ---- C10
\* C10 as stated: after a repaint the notice is displayed exactly when the
\* fetch that preceded the repaint replaced the snapshot by a larger table.
C10_NoticeIffFetchGrew ==
  [][(pc = "repaint" /\ pc' = "sleep") => (notice' <=> fetch_grew)]_vars

\* C10 amended: after a repaint the notice is displayed exactly when the
\* tick's fetch of that loop iteration replaced the snapshot by a larger one.
C10_NoticeIffTickGrew ==
  [][(pc = "repaint" /\ pc' = "sleep") => (notice' <=> tick_grew)]_vars

\* the notice is on display after the repaint of a tick that grew
C10_Witness == pc = "sleep" /\ notice /\ table_kind = "table"

====
